---- MODULE Spec2Model ----
(***************************************************************************)
(* CaptScreen: ScreenRecorder (src/captscreen.py).                         *)
(*                                                                         *)
(* One ScreenRecorder instance shared by a foreground caller (thread 0)    *)
(* and the sampling threads that start_recording spawns (threads 1..).     *)
(* The fields of the instance are plain unsynchronised attributes, so each *)
(* read or write of a field is one step and the threads interleave between *)
(* any two of them.                                                        *)
(*                                                                         *)
(* Spec drives the instance through its methods from an arbitrary caller;  *)
(* MainSpec drives it by the script of main().                             *)
(***************************************************************************)
EXTENDS Integers, Sequences, FiniteSets

\* ---------------------------------------------------------------- bounds
MaxStarts == 2      \* start_recording calls that pass the guard (= threads spawned)
MaxFrames == 2      \* frames whose identity is tracked in the logs
MaxNow == 130       \* the clock stops advancing here
ClockStep == 60     \* seconds the clock advances in one tick

\* ------------------------------------------------------- program constants
None == -1                  \* Python's None for the int-valued fields
SecondsPerMinute == 60      \* duration_minutes * 60
MonitorWidth == 2           \* sct.monitors[1]["width"]
MonitorHeight == 1          \* sct.monitors[1]["height"]

DurationInputs == {-1, 0, 1}    \* duration_minutes arguments
Fg == 0                         \* the foreground caller
Loops == 1..MaxStarts           \* sampling threads, in spawn order
Threads == {Fg} \cup Loops

VARIABLES
    recording,      \* self.recording
    paused,         \* self.paused
    writer,         \* self.writer: None or the id of a VideoWriter object
    start_time,     \* self.start_time: None or seconds
    duration,       \* self.duration, seconds
    output_file,    \* self.output_file: None or the timestamp in the name
    width, height,  \* self.width, self.height (None: attribute not set)
    now,            \* time.time(), whole seconds
    pc,             \* position of each thread
    arg,            \* duration_minutes of the start_recording call in progress
    elapsed,        \* local `elapsed` of each thread's _record_loop
    frame,          \* local `frame` of each thread's _record_loop (0: untracked)
    opened,         \* VideoWriter objects created so far
    released,       \* release() calls received by each VideoWriter object
    spawned,        \* sampling threads started so far
    reports,        \* "ЗАПИСЬ ОСТАНОВЛЕНА" reports printed
    grabs,          \* tracked frames returned by sct.grab
    written,        \* <<writer id, frame>> accepted by VideoWriter.write, in order
    tornBy,         \* threads whose stop_recording call passed the guard
    midStop,        \* some stop cleared the flag while a loop was inside an iteration
    unchecked,      \* threads whose iteration in progress found no limit at line 78
    last,           \* outcome of the caller's last completed call
    main_pc,        \* where main() continues once the call it made has returned
    main_duration   \* main's local `duration`, minutes

fields == <<recording, paused, writer, start_time, duration, output_file, width, height>>
ghost == <<opened, released, spawned, reports, grabs, written,
           tornBy, midStop, unchecked, last>>
mainvars == <<main_pc, main_duration>>
vars == <<recording, paused, writer, start_time, duration, output_file, width, height,
          now, pc, arg, elapsed, frame, opened, released, spawned, reports,
          grabs, written, tornBy, midStop, unchecked, last, main_pc, main_duration>>

\* ScreenRecorder.__init__, in a process with no thread started yet
NewRecorder ==
    /\ recording = FALSE
    /\ paused = FALSE
    /\ writer = None
    /\ start_time = None
    /\ duration = 0
    /\ output_file = None
    /\ width = None
    /\ height = None
    /\ now = 0
    /\ pc = [t \in Threads |-> IF t = Fg THEN "idle" ELSE "unborn"]
    /\ arg = 0
    /\ elapsed = [t \in Loops |-> 0]
    /\ frame = [t \in Loops |-> 0]
    /\ opened = 0
    /\ released = [w \in 1..MaxStarts |-> 0]
    /\ spawned = 0
    /\ reports = 0
    /\ grabs = 0
    /\ written = <<>>
    /\ tornBy = {}
    /\ midStop = FALSE
    /\ unchecked = {}
    /\ last = "none"

\* an instance driven through its methods by a caller other than main()
Init ==
    /\ NewRecorder
    /\ main_pc = "none"
    /\ main_duration = 0

Goto(t, l) == pc' = [pc EXCEPT ![t] = l]

\* time.time() moves on between any two steps of any thread
Tick ==
    /\ now + ClockStep <= MaxNow
    /\ now' = now + ClockStep
    /\ UNCHANGED <<mainvars, fields, pc, arg, elapsed, frame, ghost>>

\* ------------------------------------------------------- start_recording
\* a caller invokes recorder.start_recording(d)
CallStart(d) ==
    /\ pc[Fg] = "idle"
    /\ opened < MaxStarts
    /\ arg' = d
    /\ Goto(Fg, "start_guard")
    /\ UNCHANGED <<mainvars, fields, now, elapsed, frame, ghost>>

\* if self.recording: print("Запись уже идет!"); return
\* (the warning is the outcome "refused" of the call)
StartGuardNoCheck ==
    /\ pc[Fg] = "start_guard"
    /\ Goto(Fg, "start_duration")
    /\ UNCHANGED <<mainvars, fields, now, arg, elapsed, frame, ghost>>

StartGuard ==
    /\ pc[Fg] = "start_guard"
    /\ IF recording
         THEN /\ arg' = 0
              /\ last' = "refused"
              /\ Goto(Fg, "idle")
         ELSE /\ arg' = arg
              /\ last' = last
              /\ Goto(Fg, "start_duration")
    /\ UNCHANGED <<mainvars, fields, now, elapsed, frame, opened, released, spawned,
                   reports, grabs, written, tornBy, midStop, unchecked>>

\* self.duration = duration_minutes * 60 if duration_minutes > 0 else 0
DurationSeconds(d) == IF d > 0 THEN d * SecondsPerMinute ELSE 0

StartDuration ==
    /\ pc[Fg] = "start_duration"
    /\ duration' = DurationSeconds(arg)
    /\ Goto(Fg, "start_filename")
    /\ UNCHANGED <<mainvars, recording, paused, writer, start_time, output_file, width, height,
                   now, arg, elapsed, frame, ghost>>

\* self.output_file = self.get_output_filename()
StartFilename ==
    /\ pc[Fg] = "start_filename"
    /\ output_file' = now
    /\ Goto(Fg, "start_dims")
    /\ UNCHANGED <<mainvars, recording, paused, writer, start_time, duration, width, height,
                   now, arg, elapsed, frame, ghost>>

\* self.width = monitor["width"]; self.height = monitor["height"]
StartDims ==
    /\ pc[Fg] = "start_dims"
    /\ width' = MonitorWidth
    /\ height' = MonitorHeight
    /\ Goto(Fg, "start_open")
    /\ UNCHANGED <<mainvars, recording, paused, writer, start_time, duration, output_file,
                   now, arg, elapsed, frame, ghost>>

\* self.writer = cv2.VideoWriter(...)
StartOpen ==
    /\ pc[Fg] = "start_open"
    /\ opened' = opened + 1
    /\ writer' = opened + 1
    /\ Goto(Fg, "start_flag")
    /\ UNCHANGED <<mainvars, recording, paused, start_time, duration, output_file, width, height,
                   now, arg, elapsed, frame, released, spawned, reports,
                   grabs, written, tornBy, midStop, last, unchecked>>

\* self.recording = True
StartFlag ==
    /\ pc[Fg] = "start_flag"
    /\ recording' = TRUE
    /\ Goto(Fg, "start_time")
    /\ UNCHANGED <<mainvars, paused, writer, start_time, duration, output_file, width, height,
                   now, arg, elapsed, frame, ghost>>

\* self.start_time = time.time()
StartTime ==
    /\ pc[Fg] = "start_time"
    /\ start_time' = now
    /\ Goto(Fg, "start_spawn")
    /\ UNCHANGED <<mainvars, recording, paused, writer, duration, output_file, width, height,
                   now, arg, elapsed, frame, ghost>>

\* the banner, then threading.Thread(target=self._record_loop).start()
StartSpawn ==
    /\ pc[Fg] = "start_spawn"
    /\ spawned' = spawned + 1
    /\ pc' = [pc EXCEPT ![Fg] = "idle", ![spawned + 1] = "while"]
    /\ arg' = 0
    /\ last' = "started"
    /\ UNCHANGED <<mainvars, fields, now, elapsed, frame, opened, released, reports,
                   grabs, written, tornBy, midStop, unchecked>>

\* -------------------------------------------------------- stop_recording
\* where stop_recording returns to: the caller, or the loop's `break`
Return(t) == IF t = Fg THEN "idle" ELSE "done"
\* an exception nobody catches ends the thread
Raise(t) == IF t = Fg THEN "raised" ELSE "crashed"

\* positions of _record_loop between its `while` test and the end of the write
MidIteration == {"check_duration", "elapsed", "compare", "grab", "check_writer", "write"}

\* a caller invokes recorder.stop_recording()
CallStop ==
    /\ pc[Fg] = "idle"
    /\ Goto(Fg, "stop_guard")
    /\ UNCHANGED <<mainvars, fields, now, arg, elapsed, frame, ghost>>

\* if not self.recording: return
StopGuardNoCheck(t) ==
    /\ pc[t] = "stop_guard"
    /\ Goto(t, "stop_flag")
    /\ tornBy' = tornBy \cup {t}
    /\ UNCHANGED <<mainvars, fields, now, arg, elapsed, frame, opened, released, spawned,
                   reports, grabs, written, midStop, last, unchecked>>

StopGuard(t) ==
    /\ pc[t] = "stop_guard"
    /\ Goto(t, IF recording THEN "stop_flag" ELSE Return(t))
    /\ tornBy' = IF recording THEN tornBy \cup {t} ELSE tornBy
    /\ last' = IF t = Fg /\ ~recording THEN "noop" ELSE last
    /\ UNCHANGED <<mainvars, fields, now, arg, elapsed, frame, opened, released, spawned,
                   reports, grabs, written, midStop, unchecked>>

\* self.recording = False
StopFlagPaused(t) ==
    /\ pc[t] = "stop_flag"
    /\ paused' = TRUE
    /\ Goto(t, "stop_check_writer")
    /\ midStop' = (midStop \/ \E l \in Loops : pc[l] \in MidIteration)
    /\ UNCHANGED <<mainvars, recording, writer, start_time, duration, output_file,
                   width, height, now, arg, elapsed, frame, opened, released,
                   spawned, reports, grabs, written, tornBy, unchecked, last>>

StopFlag(t) ==
    /\ pc[t] = "stop_flag"
    /\ recording' = FALSE
    /\ Goto(t, "stop_check_writer")
    /\ midStop' = (midStop \/ \E l \in Loops : pc[l] \in MidIteration)
    /\ UNCHANGED <<mainvars, paused, writer, start_time, duration, output_file, width, height,
                   now, arg, elapsed, frame, opened, released, spawned, reports,
                   grabs, written, tornBy, last, unchecked>>

\* if self.writer:
StopCheckWriter(t) ==
    /\ pc[t] = "stop_check_writer"
    /\ Goto(t, IF writer # None THEN "stop_release" ELSE "stop_report")
    /\ UNCHANGED <<mainvars, fields, now, arg, elapsed, frame, ghost>>

\* self.writer.release(): AttributeError when self.writer has become None
StopRelease(t) ==
    /\ pc[t] = "stop_release"
    /\ IF writer = None
         THEN /\ Goto(t, Raise(t))
              /\ released' = released
         ELSE /\ Goto(t, "stop_clear")
              /\ released' = [released EXCEPT ![writer] = @ + 1]
    /\ UNCHANGED <<mainvars, fields, now, arg, elapsed, frame, opened, spawned, reports,
                   grabs, written, tornBy, midStop, last, unchecked>>

\* self.writer = None
StopClearKeeps(t) ==
    /\ pc[t] = "stop_clear"
    /\ Goto(t, "stop_report")
    /\ UNCHANGED <<mainvars, fields, now, arg, elapsed, frame, ghost>>

StopClear(t) ==
    /\ pc[t] = "stop_clear"
    /\ writer' = None
    /\ Goto(t, "stop_report")
    /\ UNCHANGED <<mainvars, recording, paused, start_time, duration, output_file, width, height,
                   now, arg, elapsed, frame, ghost>>

\* elapsed = ...; the "ЗАПИСЬ ОСТАНОВЛЕНА" report
StopReport(t) ==
    /\ pc[t] = "stop_report"
    /\ reports' = reports + 1
    /\ Goto(t, Return(t))
    /\ last' = IF t = Fg THEN "stopped" ELSE last
    /\ UNCHANGED <<mainvars, fields, now, arg, elapsed, frame, opened, released, spawned,
                   grabs, written, tornBy, midStop, unchecked>>

\* ----------------------------------------------------------- _record_loop
\* while self.recording:
LoopWhileTrue(t) ==
    /\ pc[t] = "while"
    /\ Goto(t, "check_duration")
    /\ UNCHANGED <<mainvars, fields, now, arg, elapsed, frame, ghost>>

LoopWhile(t) ==
    /\ pc[t] = "while"
    /\ Goto(t, IF recording THEN "check_duration" ELSE "done")
    /\ UNCHANGED <<mainvars, fields, now, arg, elapsed, frame, ghost>>

\* if self.duration > 0:
LoopCheckDurationNever(t) ==
    /\ pc[t] = "check_duration"
    /\ Goto(t, "grab")
    /\ UNCHANGED <<mainvars, fields, now, arg, elapsed, frame, ghost>>

LoopCheckDuration(t) ==
    /\ pc[t] = "check_duration"
    /\ Goto(t, IF duration > 0 THEN "elapsed" ELSE "grab")
    /\ unchecked' = IF duration > 0 THEN unchecked ELSE unchecked \cup {t}
    /\ UNCHANGED <<mainvars, fields, now, arg, elapsed, frame, opened, released, spawned, reports,
                   grabs, written, tornBy, midStop, last>>

\* elapsed = time.time() - self.start_time
LoopElapsed(t) ==
    /\ pc[t] = "elapsed"
    /\ elapsed' = [elapsed EXCEPT ![t] = now - start_time]
    /\ Goto(t, "compare")
    /\ UNCHANGED <<mainvars, fields, now, arg, frame, ghost>>

\* if elapsed >= self.duration: print(...); self.stop_recording(); break
\* (the local is not read again before it is reassigned)
Expired(e, d) == e >= d

LoopCompare(t) ==
    /\ pc[t] = "compare"
    /\ Goto(t, IF Expired(elapsed[t], duration) THEN "stop_guard" ELSE "grab")
    /\ elapsed' = [elapsed EXCEPT ![t] = 0]
    /\ UNCHANGED <<mainvars, fields, now, arg, frame, ghost>>

\* screenshot = sct.grab(monitor); frame = cvtColor(np.array(screenshot))
LoopGrab(t) ==
    /\ pc[t] = "grab"
    /\ IF grabs < MaxFrames
         THEN /\ grabs' = grabs + 1
              /\ frame' = [frame EXCEPT ![t] = grabs + 1]
         ELSE /\ grabs' = grabs
              /\ frame' = [frame EXCEPT ![t] = 0]
    /\ Goto(t, "check_writer")
    /\ UNCHANGED <<mainvars, fields, now, arg, elapsed, opened, released, spawned, reports,
                   written, tornBy, midStop, last, unchecked>>

\* sct.grab raises (display gone, permission revoked): the thread dies
LoopGrabFail(t) ==
    /\ pc[t] = "grab"
    /\ Goto(t, "grab_failed")
    /\ unchecked' = unchecked \ {t}
    /\ UNCHANGED <<mainvars, fields, now, arg, elapsed, frame, opened, released, spawned, reports,
                   grabs, written, tornBy, midStop, last>>

\* if self.writer is not None:
LoopCheckWriterInverted(t) ==
    /\ pc[t] = "check_writer"
    /\ Goto(t, IF writer = None THEN "write" ELSE "sleep")
    /\ frame' = [frame EXCEPT ![t] = IF writer = None THEN @ ELSE 0]
    /\ UNCHANGED <<mainvars, fields, now, arg, elapsed, ghost>>

LoopCheckWriter(t) ==
    /\ pc[t] = "check_writer"
    /\ Goto(t, IF writer # None THEN "write" ELSE "sleep")
    /\ frame' = [frame EXCEPT ![t] = IF writer # None THEN @ ELSE 0]
    /\ unchecked' = IF writer # None THEN unchecked ELSE unchecked \ {t}
    /\ UNCHANGED <<mainvars, fields, now, arg, elapsed, opened, released, spawned, reports,
                   grabs, written, tornBy, midStop, last>>

\* self.writer.write(frame): AttributeError when self.writer has become None;
\* a released VideoWriter drops the frame
LoopWrite(t) ==
    /\ pc[t] = "write"
    /\ IF writer = None
         THEN /\ Goto(t, "write_failed")
              /\ written' = written
         ELSE /\ Goto(t, "sleep")
              /\ written' = IF released[writer] = 0 /\ frame[t] > 0
                              THEN Append(written, <<writer, frame[t]>>)
                              ELSE written
    /\ frame' = [frame EXCEPT ![t] = 0]
    /\ unchecked' = unchecked \ {t}
    /\ UNCHANGED <<mainvars, fields, now, arg, elapsed, opened, released, spawned,
                   reports, grabs, tornBy, midStop, last>>

\* the progress line, then time.sleep(0.05)
LoopSleep(t) ==
    /\ pc[t] = "sleep"
    /\ Goto(t, "while")
    /\ UNCHANGED <<mainvars, fields, now, arg, elapsed, frame, ghost>>

\* ------------------------------------------------------------ the system
StartStep ==
    \/ StartGuard \/ StartDuration \/ StartFilename \/ StartDims
    \/ StartOpen \/ StartFlag \/ StartTime \/ StartSpawn

StopStep(t) ==
    \/ StopGuard(t) \/ StopFlag(t) \/ StopCheckWriter(t)
    \/ StopRelease(t) \/ StopClear(t) \/ StopReport(t)

LoopStep(t) ==
    \/ LoopWhile(t) \/ LoopCheckDuration(t) \/ LoopElapsed(t) \/ LoopCompare(t)
    \/ LoopGrab(t) \/ LoopCheckWriter(t) \/ LoopWrite(t) \/ LoopSleep(t)

Next ==
    \/ Tick
    \/ \E d \in DurationInputs : CallStart(d)
    \/ CallStop
    \/ StartStep
    \/ \E t \in Threads : StopStep(t)
    \/ \E t \in Loops : LoopStep(t)
    \/ \E t \in Loops : LoopGrabFail(t)

Spec == Init /\ [][Next]_vars

\* every thread that can take a step eventually takes one (OS thread scheduling);
\* nothing obliges the caller to make a call, the clock to tick or a grab to fail
Fairness ==
    /\ \A t \in Loops : WF_vars(LoopStep(t) \/ StopStep(t))
    /\ WF_vars(StartStep \/ StopStep(Fg))

LiveSpec == Init /\ [][Next]_vars /\ Fairness

\* ------------------------------------------------------------------ main()
\* the process of main(): recorder = ScreenRecorder(), nothing read yet
MainInit ==
    /\ NewRecorder
    /\ main_pc = "parse"
    /\ main_duration = 0

MainGoto(l) == main_pc' = l

\* duration = int(duration_input) if duration_input else 0 (0 on ValueError),
\* then the Enter that starts the recording
MainParse(d) ==
    /\ main_pc = "parse"
    /\ main_duration' = d
    /\ MainGoto("start")
    /\ UNCHANGED <<fields, now, pc, arg, elapsed, frame, ghost>>

\* recorder.start_recording(duration)
MainStart ==
    /\ main_pc = "start"
    /\ arg' = main_duration
    /\ Goto(Fg, "start_guard")
    /\ MainGoto("branch")
    /\ UNCHANGED <<main_duration, fields, now, elapsed, frame, ghost>>

\* if duration == 0: ... else: ...
MainBranch ==
    /\ main_pc = "branch"
    /\ pc[Fg] = "idle"
    /\ MainGoto(IF main_duration = 0 THEN "enter" ELSE "poll")
    /\ UNCHANGED <<main_duration, fields, now, pc, arg, elapsed, frame, ghost>>

\* input() returns: the user pressed Enter; recorder.stop_recording()
MainEnter ==
    /\ main_pc = "enter"
    /\ Goto(Fg, "stop_guard")
    /\ MainGoto("exit_prompt")
    /\ UNCHANGED <<main_duration, fields, now, arg, elapsed, frame, ghost>>

\* while recorder.recording:
MainPoll ==
    /\ main_pc = "poll"
    /\ MainGoto(IF recording THEN "poll_sleep" ELSE "exit_prompt")
    /\ UNCHANGED <<main_duration, fields, now, pc, arg, elapsed, frame, ghost>>

\* time.sleep(0.1)
MainPollSleep ==
    /\ main_pc = "poll_sleep"
    /\ MainGoto("poll")
    /\ UNCHANGED <<main_duration, fields, now, pc, arg, elapsed, frame, ghost>>

\* print("Нажмите Enter для выхода..."); input(); main returns and the process
\* exits, which ends its daemon threads wherever they are
MainExit ==
    /\ main_pc = "exit_prompt"
    /\ pc[Fg] = "idle"
    /\ MainGoto("exited")
    /\ UNCHANGED <<main_duration, fields, now, pc, arg, elapsed, frame, ghost>>

\* the process is still running
Alive == main_pc # "exited"

\* thread.daemon = True: a sampling thread runs only while the process does
DaemonStop(t) == Alive /\ StopStep(t)
DaemonLoop(t) == Alive /\ LoopStep(t)
DaemonGrabFail(t) == Alive /\ LoopGrabFail(t)

MainStep ==
    \/ \E d \in DurationInputs : MainParse(d)
    \/ MainStart \/ MainBranch \/ MainEnter \/ MainPoll \/ MainPollSleep

MainNext ==
    \/ Tick
    \/ MainStep
    \/ MainExit
    \/ StartStep
    \/ StopStep(Fg)
    \/ \E t \in Loops : DaemonStop(t)
    \/ \E t \in Loops : DaemonLoop(t)
    \/ \E t \in Loops : DaemonGrabFail(t)

MainSpec == MainInit /\ [][MainNext]_vars

\* every thread that can take a step eventually takes one, the clock advances,
\* and the user answers the prompts that precede the exit prompt
MainFairness ==
    /\ \A t \in Loops : WF_vars(DaemonLoop(t) \/ DaemonStop(t))
    /\ WF_vars(StartStep \/ StopStep(Fg))
    /\ WF_vars(MainStep)
    /\ WF_vars(Tick)

LiveMain == MainInit /\ [][MainNext]_vars /\ MainFairness

\* ------------------------------------------------------------------ claims
\* a sampling thread takes the timer-expiry branch and calls stop_recording
AutoStop(t) == pc[t] = "compare" /\ pc'[t] = "stop_guard"

\* the limit of the session in progress has been reached
Due ==
    /\ recording
    /\ duration > 0
    /\ pc[Fg] # "start_time"
    /\ now - start_time >= duration

\* C1: under every interleaving of the loop's timer-expiry stop_recording and a
\* caller's stop_recording, the sink of a session is released exactly once.
C1_SinkReleasedOnce == \A w \in 1..MaxStarts : released[w] <= 1

\* C2: with a positive limit, a sampling thread never calls stop_recording on its
\* own while now - start_time is below the limit.
C2_NoEarlyAutoStop ==
    [][\A t \in Loops :
          (AutoStop(t) /\ duration > 0) => now - start_time >= duration]_vars

\* the sampling thread of the latest session ended in its grab or at its write
\* instead of returning from it
LoopDied == spawned > 0 /\ pc[spawned] \in {"grab_failed", "write_failed"}

\* C3: once now - start_time has reached a positive limit on a Recording session,
\* the session eventually leaves Recording, given that the threads keep being
\* scheduled and that the session's sampling thread does not end in its grab or
\* at its write.
C3_AutoStopHappens == Due ~> (~recording \/ LoopDied)

\* a limited session was stopped by its sampling thread alone, at its limit
C3_Witness ==
    /\ ~recording
    /\ tornBy = {1}
    /\ pc[1] = "done"
    /\ reports = 1
    /\ duration > 0
    /\ now - start_time >= duration

\* C4: with duration == 0 the step that takes the session out of Recording is
\* never a step of a sampling thread.
C4_NoSelfTermination ==
    [][\A t \in Loops :
          (duration = 0 /\ recording /\ ~recording') => pc'[t] = pc[t]]_vars

\* no sampling thread has ever passed the guard of stop_recording
OnlyCallerStopped == tornBy \subseteq {Fg}

\* C5: when only the caller stops sessions, every sink is closed at most once and
\* every session reported at most once, exactly once when the caller is back with
\* the session stopped; a stop_recording call that finds the session not
\* Recording returns at the guard and changes no field, close count or report.
C5_StopTwiceOnce ==
    /\ [](OnlyCallerStopped =>
            /\ \A w \in 1..MaxStarts : released[w] <= 1
            /\ reports <= opened
            /\ (pc[Fg] = "idle" /\ ~recording) =>
                  /\ reports = opened
                  /\ \A w \in 1..opened : released[w] = 1)
    /\ [][(pc[Fg] = "stop_guard" /\ ~recording /\ pc'[Fg] # pc[Fg]) =>
             /\ pc'[Fg] = "idle"
             /\ UNCHANGED <<fields, released, reports, opened>>]_vars

\* the caller stopped a session and then called stop_recording again
C5_Witness ==
    /\ last = "noop"
    /\ tornBy = {Fg}
    /\ reports = 1
    /\ released[1] = 1

\* C6: a start_recording call that finds the session Recording returns with the
\* warning and leaves output_file, start_time, duration, the sink handle and the
\* dimensions as they were, opens no sink and spawns no thread.
C6_StartWhileRecording ==
    [][(pc[Fg] = "start_guard" /\ recording /\ pc'[Fg] # pc[Fg]) =>
          /\ pc'[Fg] = "idle"
          /\ last' = "refused"
          /\ UNCHANGED <<fields, opened, spawned>>]_vars

\* a start_recording call was refused during a running session
C6_Witness ==
    /\ last = "refused"
    /\ recording
    /\ opened = 1
    /\ spawned = 1

\* C7: once stop_recording has taken the instance out of Recording, it never
\* returns to Recording.
C7_StoppedIsTerminal == [][(~recording /\ tornBy # {}) => ~recording']_vars

\* the tracked frame a thread holds between its grab and its write
InFlight(t) == IF pc[t] \in {"check_writer", "write"} /\ frame[t] > 0 THEN 1 ELSE 0

\* C8: with a single sampling loop and no stop arriving inside an iteration, the
\* frames written are the frames grabbed, in order, none dropped or duplicated.
C8_FramesInOrder ==
    (opened <= 1 /\ ~midStop) =>
        written = [i \in 1..(grabs - InFlight(1)) |-> <<1, i>>]

\* a session of one loop wrote two frames and was stopped between iterations
C8_Witness ==
    /\ opened = 1
    /\ ~midStop
    /\ ~recording
    /\ tornBy # {}
    /\ Len(written) >= 2

\* C9: after a failed grab has ended the sampling thread, the session is not
\* left Recording with its sink open.
C9_GrabFailureAborts ==
    (\E t \in Loops : pc[t] = "grab_failed") => ~(recording /\ writer # None)

\* positions of _record_loop past a `while` test that saw recording == True
InsideLoop == MidIteration \cup {"sleep"}

\* C10: at most one sampling thread is inside its while-loop during a recording.
C10_OneLoop == recording => Cardinality({t \in Loops : pc[t] \in InsideLoop}) <= 1

\* positions of stop_recording after `recording = False`, up to `writer = None`
Closing == {"stop_check_writer", "stop_release", "stop_clear"}

\* C11 as stated: in every reachable state, writer is not None implies
\* recording == True.
C11_HandleOnlyWhileRecording == writer # None => recording

\* C11: in every reachable state where the handle is set and recording is
\* False, either start_recording stands between opening the sink and setting
\* the flag, or some stop_recording call stands between clearing the flag and
\* clearing the handle.
C11_HandleOutsideRecording ==
    (writer # None /\ ~recording) =>
        \/ pc[Fg] = "start_flag"
        \/ \E t \in Threads : pc[t] \in Closing

\* the caller's stop_recording has closed the sink of a stopped session and is
\* about to clear the handle
C11_Witness ==
    /\ writer = 1
    /\ ~recording
    /\ pc[Fg] = "stop_clear"
    /\ released[1] = 1

\* C12: stop_recording clears the flag before it closes the sink and before it
\* clears the handle, so in no reachable state has the sink behind the handle
\* been released while recording is still True.
C12_FlagClearedFirst == (recording /\ writer # None) => released[writer] = 0

\* a start_recording call is in progress
StartInProgress ==
    pc[Fg] \in {"start_guard", "start_duration", "start_filename", "start_dims",
                "start_open", "start_flag", "start_time", "start_spawn"}

\* every sampling thread started so far has left _record_loop
LoopsExited ==
    \A t \in 1..spawned : pc[t] \in {"done", "crashed", "grab_failed", "write_failed"}

\* C13: once stop_recording has cleared the flag, every sampling thread leaves
\* its loop unless start_recording is called again, given that the threads keep
\* being scheduled; and while the flag is False no thread passes its `while`
\* test into a further iteration.
C13_LoopExitsAfterStop ==
    /\ (~recording /\ tornBy # {} /\ ~StartInProgress)
          ~> (LoopsExited \/ StartInProgress)
    /\ [][\A t \in Loops :
             (~recording /\ pc[t] = "while" /\ pc'[t] # pc[t]) => pc'[t] = "done"]_vars

\* the caller's stop arrived inside an iteration of the only loop, which then
\* finished the iteration and returned at its next `while` test
C13_Witness ==
    /\ ~recording
    /\ tornBy = {Fg}
    /\ midStop
    /\ opened = 1
    /\ pc[1] = "done"
    /\ pc[Fg] = "idle"

\* C14: every frame written into a duration-limited session was grabbed in an
\* iteration whose expiry check saw elapsed < duration.
C14_CheckBeforeCapture ==
    \A t \in Loops :
        (pc[t] = "write" /\ recording /\ duration > 0 /\ writer # None) =>
            t \notin unchecked

\* C15: start_recording sets start_time before it sets the flag, so in every
\* reachable state where recording is True start_time is not None and
\* start_recording is not still about to assign it.
C15_StartTimeBeforeFlag ==
    recording => (start_time # None /\ pc[Fg] # "start_time")

\* C16: whenever a sampling thread executes `self.writer.write(frame)`, the
\* handle is not None and the sink behind it has not been released.
C16_NoWriteAfterTeardown ==
    [][\A t \in Loops :
          (pc[t] = "write" /\ pc'[t] # pc[t]) =>
              (writer # None /\ released[writer] = 0)]_vars

\* main() has left its foreground wait and stands at its exit prompt or beyond
AtExit == main_pc \in {"exit_prompt", "exited"} /\ pc[Fg] = "idle"

\* C17: in main's duration-limited mode, once the poll loop has ended and main
\* stands at its exit prompt or the process has exited, the sink of the session
\* has been released.
C17_ReleasedBeforeExit ==
    (AtExit /\ main_duration # 0) => released[1] = 1

\* C18: for every duration main parses, the foreground wait that follows
\* start_recording ends, given that the threads keep being scheduled, the clock
\* advances as far as the session's limit, the user presses Enter and the
\* sampling thread does not end in its grab or at its write.
C18_WaitEnds ==
    (main_pc = "branch" /\ pc[Fg] = "idle" /\ start_time + duration <= MaxNow)
        ~> (AtExit \/ LoopDied)

\* C19: paused is False in every reachable state: __init__ sets it and no step
\* of start_recording, _record_loop or stop_recording assigns it.
C19_PausedDead == paused = FALSE

\* a session was started, recorded a frame and was stopped by the caller
C19_Witness ==
    /\ ~paused
    /\ ~recording
    /\ last = "stopped"
    /\ pc[1] = "done"
    /\ Len(written) >= 1

====
